---- MODULE Spec2Model ----
(***************************************************************************)
(* Order service (cart, checkout, order routes) together with the stock   *)
(* endpoint of the product service it calls.  Every request is a process  *)
(* whose steps are the awaits of its handler; the stores (carts, orders,   *)
(* stock) are shared between the requests in flight.                       *)
(***************************************************************************)
EXTENDS Integers, Sequences, FiniteSets, TLC

\* ------------------------------------------------------------------ bounds
MaxRequests == 2      \* requests accepted in one behaviour
MaxStock == 1         \* largest initial stock of a product
MaxQty == 1           \* largest quantity of an addItem request

\* ------------------------------------------------------------------ inputs
Reqs == {1, 2}                       \* requests that can be in flight together
Users == {"u1", "u2"}
Products == {"a", "b"}               \* ObjectIds of the catalog (canonical hex)
IdStrings == {"a", "A", "b", "c"}    \* productId strings a client can send
QtyInputs == 0..MaxQty               \* `quantity` of a POST /cart/add body
StatusInputs == {"pending", "delivered", "lost"}  \* `status` of a PATCH body
OrderIds == 3..(MaxRequests + 2)     \* `:id` of the order routes
StockQtyInputs == {0 - 1, 1}         \* `quantity` of a stock PATCH body
OperationInputs == {"decrease", "increase"}
AmountInputs == {2}                  \* `amount` of a POST /payments/process body
MethodInputs == {"card", "cash"}     \* `paymentMethod.type` of that body
PaymentIds == {1, 3}                 \* `:id` of the refund route
RefundInputs == 1..3                 \* `amount` of a refund body
Tokens == {"none", "t1", "bad"}      \* bearer token of the Authorization header

\* enum of orderSchema.status and of orderSchema.paymentStatus
OrderStatuses == {"pending", "confirmed", "processing", "shipped", "delivered",
                  "cancelled"}
PaymentStatuses == {"pending", "completed", "failed", "refunded"}

\* enum of paymentSchema.paymentMethod.type
PaymentMethods == {"card", "paypal", "stripe"}

\* ------------------------------------------------------------------ catalog
\* hex digits of an ObjectId string are case-insensitive; the stored id is
\* the lower-case form
toLowerCase(s) == CASE s = "A" -> "a" [] s = "B" -> "b" [] s = "C" -> "c" [] OTHER -> s
castObjectId(s) == toLowerCase(s)

\* an ObjectId is kept as its lower-case hex string, which toString() returns
objectIdToString(id) == id

price(p) == IF p = "a" THEN 10 ELSE 7
productName(p) == p
productImage(p) == p

\* ------------------------------------------------------------------ state
VARIABLES
  stock,          \* Product.stock of every product
  carts,          \* Cart collection, in insertion order
  orders,         \* Order collection, in insertion order
  notifications,  \* notifications the notification service received
  nextId,         \* next document _id
  started,        \* requests accepted so far
  pc,             \* position of every request in its handler
  req,            \* req.user / req.body / req.params of every request
  cart,           \* local `cart` of the handler
  idx,            \* position of the running for-loop
  orderItems,     \* local `orderItems`
  totalAmount,    \* local `totalAmount`
  order,          \* _id of the local `order`
  fetched,        \* `product.stock` as loaded by the stock endpoint
  cartWithDetails, \* local `cartWithDetails` of GET /cart
  total,          \* local `total` of GET /cart
  resp,           \* response sent to the caller
  fault,          \* the call that failed for the request, "none" without failure
  stock0,         \* stock when the request arrived
  orders0,        \* number of orders when the request arrived
  notifs0,        \* number of notifications when the request arrived
  initStock,      \* stock of every product in the initial state
  serial,         \* TRUE when requests are served one at a time
  catalogCalls,   \* calls to the product service made for the request
  decLog,         \* stock decrements applied for createOrder
  initCarts,      \* Cart collection of the initial state
  payments,       \* Payment collection of the payment service
  payment,        \* local `payment` of the payment handlers
  refunds         \* refunds the payment provider has carried out

vars == <<stock, carts, orders, notifications, nextId, started, pc, req, cart,
          idx, orderItems, totalAmount, order, fetched, cartWithDetails, total,
          resp, fault, stock0, orders0, notifs0, initStock, serial,
          catalogCalls, decLog, initCarts, payments, payment, refunds>>

stores == <<stock, carts, orders, notifications>>
locals == <<cart, idx, orderItems, totalAmount, order, fetched>>
reads == <<cartWithDetails, total>>
arrival == <<stock0, orders0, notifs0, initStock, serial, initCarts>>
pay == <<payments, payment, refunds>>

NoCart == [id |-> 0, userId |-> "none", items |-> <<>>, v |-> 0]
NoReq == [op |-> "none", user |-> "none", productId |-> "none", quantity |-> 0,
          status |-> "none", orderId |-> 0, operation |-> "none",
          paymentId |-> 0, amount |-> 0, method |-> "none",
          token |-> "none", path |-> "none", valid |-> FALSE]
NoResp == [status |-> 0, error |-> "none", orderId |-> 0, body |-> <<>>]
NoPayment == [id |-> 0, amount |-> 0, status |-> "none", refundAmount |-> 0]

RECURSIVE SumSeq(_)
SumSeq(s) == IF s = <<>> THEN 0 ELSE Head(s) + SumSeq(Tail(s))

\* index of the first element of s satisfying Test, 0 when there is none
FirstIndex(s, Test(_)) ==
  IF \E i \in 1..Len(s) : Test(s[i])
  THEN CHOOSE i \in 1..Len(s) : Test(s[i]) /\ \A j \in 1..(i - 1) : ~Test(s[j])
  ELSE 0

RemoveAt(s, i) == [j \in 1..(Len(s) - 1) |-> IF j < i THEN s[j] ELSE s[j + 1]]

\* Cart.findOne({ userId })
findCart(cs, u) ==
  LET i == FirstIndex(cs, LAMBDA c : c.userId = u)
  IN IF i = 0 THEN NoCart ELSE cs[i]

\* the cart is left in place
deleteCartNone(cs, u) == cs

\* Cart.deleteOne({ userId })
deleteCart(cs, u) ==
  LET i == FirstIndex(cs, LAMBDA c : c.userId = u)
  IN IF i = 0 THEN cs ELSE RemoveAt(cs, i)

\* only cart.items.length === 0 is looked at
cartIsEmptyNoNull(c) == c # NoCart /\ Len(c.items) = 0

\* !cart || cart.items.length === 0
cartIsEmpty(c) == c = NoCart \/ Len(c.items) = 0

\* product.stock < item.quantity
insufficient(s, q) == s < q

\* product.stock = quantity
decreaseStockAssign(s, q) == q

\* product.stock -= quantity
decreaseStock(s, q) == s - q

\* carts that earlier POST /cart/add requests without a quantity (it defaults
\* to 1) have left behind: per user no cart, or one cart with a line for "a",
\* or with lines for "a" and "b"
InitItems ==
  LET L(p) == [productId |-> p, quantity |-> 1]
  IN {<<L("a")>>, <<L("a"), L("b")>>}

InitCarts ==
  LET C(i, u, its) == [id |-> i, userId |-> u, items |-> its, v |-> 0]
  IN {<<>>}
     \cup {<<C(1, u, its)>> : u \in Users, its \in InitItems}
     \cup {<<C(1, "u1", x[1]), C(2, "u2", x[2])>> : x \in InitItems \X InitItems}

\* orders that earlier checkouts and status updates have left behind: one
\* order of u1, or two orders of u1, or one order of each user
InitOrders ==
  LET O(i, u, st) ==
        [id |-> i, userId |-> u,
         items |-> <<[productId |-> "a", name |-> productName("a"),
                      price |-> price("a"), quantity |-> 1,
                      image |-> productImage("a")]>>,
         totalAmount |-> price("a"), status |-> st, paymentStatus |-> "pending"]
  IN {<<O(3, "u1", st)>> : st \in {"pending", "delivered"}}
     \cup {<<O(3, "u1", "pending"), O(4, u, "pending")>> : u \in Users}

\* no request has arrived yet
NoRequests ==
  /\ notifications = {}
  /\ started = 0
  /\ pc = [r \in Reqs |-> "idle"]
  /\ req = [r \in Reqs |-> NoReq]
  /\ cart = [r \in Reqs |-> NoCart]
  /\ idx = [r \in Reqs |-> 0]
  /\ orderItems = [r \in Reqs |-> <<>>]
  /\ totalAmount = [r \in Reqs |-> 0]
  /\ order = [r \in Reqs |-> 0]
  /\ fetched = [r \in Reqs |-> 0]
  /\ cartWithDetails = [r \in Reqs |-> <<>>]
  /\ total = [r \in Reqs |-> 0]
  /\ resp = [r \in Reqs |-> NoResp]
  /\ fault = [r \in Reqs |-> "none"]
  /\ stock0 = [r \in Reqs |-> [p \in Products |-> 0]]
  /\ orders0 = [r \in Reqs |-> 0]
  /\ notifs0 = [r \in Reqs |-> 0]
  /\ catalogCalls = [r \in Reqs |-> 0]
  /\ decLog = {}
  /\ payment = [r \in Reqs |-> NoPayment]

Start ==
  /\ NoRequests
  /\ stock \in [Products -> 0..MaxStock]
  /\ initStock = stock
  /\ carts \in InitCarts
  /\ initCarts = carts
  /\ payments = <<>>
  /\ refunds = <<>>
  /\ orders = <<>>
  /\ nextId = 3

\* the service holds orders and no cart
StartOrders ==
  /\ NoRequests
  /\ stock = [p \in Products |-> MaxStock]
  /\ initStock = stock
  /\ carts = <<>>
  /\ initCarts = carts
  /\ payments = <<>>
  /\ refunds = <<>>
  /\ orders \in InitOrders
  /\ nextId = 5

\* requests of any users interleave at every await
Init == Start /\ serial = FALSE

\* every request is answered before the next one arrives
InitSeq == Start /\ serial = TRUE

\* requests interleave on a service that holds orders
InitOrdersConc == StartOrders /\ serial = FALSE

\* the service holds orders and the cart of a user; every request is
\* answered before the next one arrives
InitHistory ==
  /\ NoRequests
  /\ stock = [p \in Products |-> MaxStock]
  /\ initStock = stock
  /\ carts = <<[id |-> 1, userId |-> "u1",
                items |-> <<[productId |-> "a", quantity |-> 1]>>, v |-> 0]>>
  /\ initCarts = carts
  /\ payments = <<>>
  /\ refunds = <<>>
  /\ orders \in InitOrders
  /\ nextId = 5
  /\ serial = TRUE

\* ---------------------------------------------------------- request frame
\* a request that has been answered is over
free(r) == pc[r] \in {"idle", "done"}

\* the next request arrives; what the answered request before it left in r
\* is gone
Accept(r, rq, first) ==
  /\ free(r)
  /\ \A o \in Reqs : o < r => ~free(o)
  /\ serial => \A o \in Reqs : free(o)
  /\ started < MaxRequests
  /\ started' = started + 1
  /\ pc' = [pc EXCEPT ![r] = first]
  /\ req' = [req EXCEPT ![r] = rq]
  /\ cart' = [cart EXCEPT ![r] = NoCart]
  /\ idx' = [idx EXCEPT ![r] = 0]
  /\ orderItems' = [orderItems EXCEPT ![r] = <<>>]
  /\ totalAmount' = [totalAmount EXCEPT ![r] = 0]
  /\ order' = [order EXCEPT ![r] = 0]
  /\ fetched' = [fetched EXCEPT ![r] = 0]
  /\ cartWithDetails' = [cartWithDetails EXCEPT ![r] = <<>>]
  /\ total' = [total EXCEPT ![r] = 0]
  /\ resp' = [resp EXCEPT ![r] = NoResp]
  /\ fault' = [fault EXCEPT ![r] = "none"]
  /\ catalogCalls' = [catalogCalls EXCEPT ![r] = 0]
  /\ payment' = [payment EXCEPT ![r] = NoPayment]
  /\ stock0' = [stock0 EXCEPT ![r] = stock]
  /\ orders0' = [orders0 EXCEPT ![r] = Len(orders)]
  /\ notifs0' = [notifs0 EXCEPT ![r] = Cardinality(notifications)]
  /\ UNCHANGED <<stores, nextId, initStock, serial, decLog, initCarts, payments,
                 refunds>>

\* res.status(status).json(body)
ReplyWith(r, status, error, oid, body) ==
  /\ pc' = [pc EXCEPT ![r] = "done"]
  /\ resp' = [resp EXCEPT ![r] = [status |-> status, error |-> error,
                                  orderId |-> oid, body |-> body]]

Reply(r, status, error, oid) == ReplyWith(r, status, error, oid, <<>>)

\* the catch answers 503 for a collaborator that is out of reach
catchStatusUnavailable(message) == IF message = "upstream" THEN 503 ELSE 500

\* catch (error) { res.status(500).json({ error: error.message }) }
catchStatus(message) == 500

\* a call of the handler threw
Throw(r, site, message) ==
  /\ Reply(r, catchStatus(message), message, 0)
  /\ fault' = [fault EXCEPT ![r] = site]

\* ------------------------------------------- product service: GET /products/:id
\* Product.findById(req.params.id): 200 with the product, 404 without
getProductStatus(s) == IF castObjectId(s) \in Products THEN 200 ELSE 404

\* ------------------------------------------------------- POST /cart/add
AddItemStart(r) ==
  /\ free(r)
  /\ \E u \in Users, s \in IdStrings, q \in QtyInputs :
       Accept(r, [NoReq EXCEPT !.op = "addItem", !.user = u, !.productId = s,
                               !.quantity = q], "ai_verify")

\* await axios.get(.../products/${productId}); a non-2xx answer throws
AddItemVerify(r) ==
  /\ pc[r] = "ai_verify"
  /\ catalogCalls' = [catalogCalls EXCEPT ![r] = @ + 1]
  /\ \E up \in BOOLEAN :
       IF ~up
       THEN Throw(r, "getProduct", "upstream")
       ELSE /\ IF getProductStatus(req[r].productId) = 200
               THEN pc' = [pc EXCEPT ![r] = "ai_find"] /\ UNCHANGED resp
               ELSE Reply(r, catchStatus("Request failed with status code 404"),
                             "Request failed with status code 404", 0)
            /\ UNCHANGED fault
  /\ UNCHANGED <<stores, locals, nextId, started, req, reads, arrival, pay, decLog>>

\* let cart = await Cart.findOne({ userId })
AddItemFind(r) ==
  /\ pc[r] = "ai_find"
  /\ cart' = [cart EXCEPT ![r] = findCart(carts, req[r].user)]
  /\ pc' = [pc EXCEPT ![r] = "ai_save"]
  /\ UNCHANGED <<stores, idx, orderItems, totalAmount, order, fetched, nextId,
                 started, req, reads, resp, fault, arrival, pay, catalogCalls, decLog>>

\* cart.items.find(item => item.productId.toString() === productId)
existingItem(items, s) ==
  FirstIndex(items, LAMBDA it : objectIdToString(it.productId) = s)

\* if (!cart) new Cart(...); find; += or push; await cart.save()
\* save() of a new document inserts it; of a loaded document it sends
\*   $push items (and $inc __v)                         for a pushed line,
\*   $set items.i.quantity where _id and __v match      for a changed line.
AddItemSave(r) ==
  /\ pc[r] = "ai_save"
  /\ LET c == cart[r]
         s == req[r].productId
         q == req[r].quantity
         i == existingItem(c.items, s)
         line == [productId |-> castObjectId(s), quantity |-> q]
         d == FirstIndex(carts, LAMBDA x : x.id = c.id)
     IN IF c = NoCart
        THEN /\ carts' = Append(carts, [id |-> nextId, userId |-> req[r].user,
                                       items |-> <<line>>, v |-> 0])
             /\ nextId' = nextId + 1
             /\ Reply(r, 200, "none", 0)
             /\ UNCHANGED fault
        ELSE IF i = 0
        THEN IF d = 0
             THEN \* the document is gone: the update matches nothing, which
                  \* save() reports or not depending on the mongoose release
                  /\ \/ Reply(r, 200, "none", 0) /\ UNCHANGED fault
                     \/ Throw(r, "save", "DocumentNotFoundError")
                  /\ UNCHANGED <<carts, nextId>>
             ELSE /\ carts' = [carts EXCEPT ![d].items = Append(@, line),
                                           ![d].v = @ + 1]
                  /\ Reply(r, 200, "none", 0)
                  /\ UNCHANGED <<nextId, fault>>
        ELSE IF d = 0 \/ carts[d].v # c.v
             THEN /\ Throw(r, "save", "VersionError")
                  /\ UNCHANGED <<carts, nextId>>
             ELSE /\ carts' = [carts EXCEPT ![d].items[i].quantity =
                                              c.items[i].quantity + q]
                  /\ Reply(r, 200, "none", 0)
                  /\ UNCHANGED <<nextId, fault>>
  /\ UNCHANGED <<stock, orders, notifications, locals, started, req, reads, arrival, pay,
                 catalogCalls, decLog>>

\* --------------------------------------------------------- POST /orders
CreateOrderStart(r) ==
  /\ free(r)
  /\ \E u \in Users :
       Accept(r, [NoReq EXCEPT !.op = "createOrder", !.user = u], "co_findCart")

\* the stock is decremented before the order is written
afterLookupsDecrementFirst == "co_dec_find"

\* where the handler goes once the loop over cart.items is through
afterLookups == "co_save"

\* const cart = await Cart.findOne({ userId }); if (!cart || ...) return 400
CreateOrderFindCart(r) ==
  /\ pc[r] = "co_findCart"
  /\ LET c == findCart(carts, req[r].user)
     IN /\ cart' = [cart EXCEPT ![r] = c]
        /\ IF cartIsEmpty(c)
           THEN Reply(r, 400, "Cart is empty", 0) /\ UNCHANGED idx
           ELSE /\ pc' = [pc EXCEPT ![r] =
                     IF c.items = <<>> THEN afterLookups ELSE "co_lookup"]
                /\ idx' = [idx EXCEPT ![r] = 1]
                /\ UNCHANGED resp
  /\ UNCHANGED <<stores, orderItems, totalAmount, order, fetched, nextId,
                 started, req, reads, fault, arrival, pay, catalogCalls, decLog>>

\* the failed line is logged and left out, as GET /cart does
lookupSkipped(r) ==
  /\ fault' = [fault EXCEPT ![r] = "getProduct"]
  /\ idx' = [idx EXCEPT ![r] = IF @ = Len(cart[r].items) THEN 1 ELSE @ + 1]
  /\ pc' = [pc EXCEPT ![r] =
       IF idx[r] = Len(cart[r].items) THEN "co_save" ELSE "co_lookup"]
  /\ UNCHANGED <<resp, orderItems, totalAmount>>

\* axios.get(.../products/:id) threw inside the loop: nothing catches it
\* before the handler's catch
lookupFailed(r) ==
  /\ Throw(r, "getProduct", "upstream")
  /\ UNCHANGED <<idx, orderItems, totalAmount>>

\* every line is snapshotted from the first item of the cart
orderItemOfFirst(items, i) ==
  LET item == items[1]
      p == item.productId
  IN [productId |-> p, name |-> productName(p), price |-> price(p),
      quantity |-> item.quantity, image |-> productImage(p)]

\* orderItems.push({ productId: item.productId, name, price, quantity, image })
\* for the item the loop is at
orderItem(items, i) ==
  LET item == items[i]
      p == item.productId
  IN [productId |-> p, name |-> productName(p), price |-> price(p),
      quantity |-> item.quantity, image |-> productImage(p)]

\* one turn of `for (let item of cart.items)`: fetch, check stock, snapshot
\* (~up stands for every answer that makes axios throw)
CreateOrderLookup(r) ==
  /\ pc[r] = "co_lookup"
  /\ catalogCalls' = [catalogCalls EXCEPT ![r] = @ + 1]
  /\ LET item == cart[r].items[idx[r]]
         p == item.productId
         last == idx[r] = Len(cart[r].items)
     IN \E up \in BOOLEAN :
          IF ~up
          THEN lookupFailed(r)
          ELSE /\ UNCHANGED fault
               /\ IF insufficient(stock[p], item.quantity)
                  THEN /\ Reply(r, 400, "Insufficient stock", 0)
                       /\ UNCHANGED <<idx, orderItems, totalAmount>>
                  ELSE /\ orderItems' = [orderItems EXCEPT ![r] =
                            Append(@, orderItem(cart[r].items, idx[r]))]
                       /\ totalAmount' = [totalAmount EXCEPT ![r] =
                                            @ + price(p) * item.quantity]
                       /\ idx' = [idx EXCEPT ![r] = IF last THEN 1 ELSE @ + 1]
                       /\ pc' = [pc EXCEPT ![r] =
                            IF last THEN afterLookups ELSE "co_lookup"]
                       /\ UNCHANGED resp
  /\ UNCHANGED <<stores, cart, order, fetched, nextId, started, req, reads, arrival, pay,
                 decLog>>

\* the cart is cleared right after the order is saved
afterSaveClearsCart(items) == "co_clear"

\* after order.save(): `for (let item of orderItems)` decrements line by
\* line, and the handler goes on to Cart.deleteOne when it is through
afterSave(items) == IF items = <<>> THEN "co_clear" ELSE "co_dec_find"

\* const order = new Order({...}); await order.save()
\* (save() validates the document, shippingAddress included, and can reject)
CreateOrderSave(r) ==
  /\ pc[r] = "co_save"
  /\ \E ok \in BOOLEAN :
       IF ~ok
       THEN /\ Throw(r, "save", "ValidationError")
            /\ UNCHANGED <<orders, order, nextId, idx>>
       ELSE /\ orders' = Append(orders,
                 [id |-> nextId, userId |-> req[r].user,
                  items |-> orderItems[r], totalAmount |-> totalAmount[r],
                  status |-> "pending", paymentStatus |-> "pending"])
            /\ order' = [order EXCEPT ![r] = nextId]
            /\ nextId' = nextId + 1
            /\ idx' = [idx EXCEPT ![r] = 1]
            /\ pc' = [pc EXCEPT ![r] = afterSave(orderItems[r])]
            /\ UNCHANGED <<resp, fault>>
  /\ UNCHANGED <<stock, carts, notifications, cart, orderItems, totalAmount,
                 fetched, started, req, reads, arrival, pay, catalogCalls, decLog>>

\* the failed decrement is logged and the handler goes on to clear the cart
decrementLogged(r) ==
  /\ fault' = [fault EXCEPT ![r] = "adjustStock"]
  /\ pc' = [pc EXCEPT ![r] = "co_clear"]
  /\ UNCHANGED resp

\* axios.patch(...) threw inside the second loop: nothing catches it before
\* the handler's catch, which answers and ends the request
decrementThrew(r) == Throw(r, "adjustStock", "upstream")

\* axios.patch(.../products/:id/stock, { quantity, operation: 'decrease' })
\* product service: Product.findById, then the stock check; its 400 makes
\* axios throw in the order service
CreateOrderDecFind(r) ==
  /\ pc[r] = "co_dec_find"
  /\ catalogCalls' = [catalogCalls EXCEPT ![r] = @ + 1]
  /\ LET item == orderItems[r][idx[r]]
         p == item.productId
     IN \E up \in BOOLEAN :
          IF ~up
          THEN decrementThrew(r) /\ UNCHANGED fetched
          ELSE /\ fetched' = [fetched EXCEPT ![r] = stock[p]]
               /\ IF insufficient(stock[p], item.quantity)
                  THEN /\ Reply(r, catchStatus("Request failed with status code 400"),
                             "Request failed with status code 400", 0)
                       /\ UNCHANGED fault
                  ELSE /\ pc' = [pc EXCEPT ![r] = "co_dec_save"]
                       /\ UNCHANGED <<resp, fault>>
  /\ UNCHANGED <<stores, cart, idx, orderItems, totalAmount, order, nextId,
                 started, req, reads, arrival, pay, decLog>>

\* product service: product.stock -= quantity; await product.save();
\* the answer can still be lost on its way back to the order service
CreateOrderDecSave(r) ==
  /\ pc[r] = "co_dec_save"
  /\ LET item == orderItems[r][idx[r]]
         p == item.productId
     IN /\ stock' = [stock EXCEPT ![p] = decreaseStock(fetched[r], item.quantity)]
        /\ decLog' = decLog \cup {[orderId |-> order[r], line |-> idx[r],
                                   productId |-> p, quantity |-> item.quantity]}
  /\ \E up \in BOOLEAN :
       IF ~up
       THEN decrementThrew(r) /\ UNCHANGED idx
       ELSE /\ idx' = [idx EXCEPT ![r] = @ + 1]
            /\ pc' = [pc EXCEPT ![r] =
                 IF idx[r] = Len(orderItems[r]) THEN "co_clear" ELSE "co_dec_find"]
            /\ UNCHANGED <<resp, fault>>
  /\ UNCHANGED <<carts, orders, notifications, cart, orderItems, totalAmount,
                 order, fetched, nextId, started, req, reads, arrival, pay, catalogCalls>>

\* await Cart.deleteOne({ userId })
CreateOrderClearCart(r) ==
  /\ pc[r] = "co_clear"
  /\ carts' = deleteCart(carts, req[r].user)
  /\ pc' = [pc EXCEPT ![r] = "co_notify"]
  /\ UNCHANGED <<stock, orders, notifications, locals, nextId, started, req, reads,
                 resp, fault, arrival, pay, catalogCalls, decLog>>

\* try { await axios.post(.../notifications/send) } catch { console.error }
\* the notification error reaches the handler's catch
afterNotifyRethrow(sent, status) == IF sent THEN status ELSE 500

\* the status answered once the notification attempt is over
afterNotify(sent, status) == status

CreateOrderNotify(r) ==
  /\ pc[r] = "co_notify"
  /\ \E sent \in BOOLEAN :
       /\ notifications' = IF sent
            THEN notifications \cup {[type |-> "order_created", orderId |-> order[r]]}
            ELSE notifications
       /\ fault' = [fault EXCEPT ![r] = IF sent THEN @ ELSE "notify"]
       /\ Reply(r, afterNotify(sent, 201), "none", order[r])
  /\ UNCHANGED <<stock, carts, orders, locals, nextId, started, req, reads, arrival, pay,
                 catalogCalls, decLog>>

\* --------------------------------------------------------------- GET /cart
GetCartStart(r) ==
  /\ free(r)
  /\ \E u \in Users :
       Accept(r, [NoReq EXCEPT !.op = "getCart", !.user = u], "gc_find")

\* res.json({ items: cartWithDetails, total })
cartView(items, sum) == [items |-> items, total |-> sum]

\* a cart is made for the user who has none
cartMissingCreates(r) ==
  /\ carts' = Append(carts, [id |-> nextId, userId |-> req[r].user,
                             items |-> <<>>, v |-> 0])
  /\ nextId' = nextId + 1
  /\ ReplyWith(r, 200, "none", 0, cartView(<<>>, 0))

\* if (!cart) { return res.json({ items: [], total: 0 }) }
cartMissing(r) ==
  /\ ReplyWith(r, 200, "none", 0, cartView(<<>>, 0))
  /\ UNCHANGED <<carts, nextId>>

\* const cart = await Cart.findOne({ userId }); if (!cart) return res.json(...)
\* (a cart without lines skips the loop and is answered in the same turn)
GetCartFind(r) ==
  /\ pc[r] = "gc_find"
  /\ LET c == findCart(carts, req[r].user)
     IN /\ cart' = [cart EXCEPT ![r] = c]
        /\ IF c = NoCart
           THEN cartMissing(r) /\ UNCHANGED idx
           ELSE IF c.items = <<>>
           THEN /\ ReplyWith(r, 200, "none", 0, cartView(<<>>, 0))
                /\ UNCHANGED <<idx, carts, nextId>>
           ELSE /\ pc' = [pc EXCEPT ![r] = "gc_lookup"]
                /\ idx' = [idx EXCEPT ![r] = 1]
                /\ UNCHANGED <<resp, carts, nextId>>
  /\ UNCHANGED <<stock, orders, notifications, orderItems, totalAmount, order,
                 fetched, started, req, reads, fault, arrival, pay, catalogCalls,
                 decLog>>

\* the subtotal is the price of the product
cartItemUnitSubtotal(item) ==
  LET p == item.productId
  IN [productId |-> p, name |-> productName(p), price |-> price(p),
      quantity |-> item.quantity, image |-> productImage(p),
      subtotal |-> price(p)]

\* const cartItem = { productId, name, price, quantity, image,
\*                    subtotal: product.price * item.quantity }
cartItem(item) ==
  LET p == item.productId
  IN [productId |-> p, name |-> productName(p), price |-> price(p),
      quantity |-> item.quantity, image |-> productImage(p),
      subtotal |-> price(p) * item.quantity]

\* one turn of `for (let item of cart.items)`: a lookup that throws is logged
\* and the line left out
GetCartLookup(r) ==
  /\ pc[r] = "gc_lookup"
  /\ catalogCalls' = [catalogCalls EXCEPT ![r] = @ + 1]
  /\ LET item == cart[r].items[idx[r]]
         p == item.productId
         last == idx[r] = Len(cart[r].items)
     IN \E up \in BOOLEAN :
          LET details == IF up THEN Append(cartWithDetails[r], cartItem(item))
                         ELSE cartWithDetails[r]
              sum == IF up THEN total[r] + cartItem(item).subtotal ELSE total[r]
          IN /\ cartWithDetails' = [cartWithDetails EXCEPT ![r] = details]
             /\ total' = [total EXCEPT ![r] = sum]
             /\ fault' = [fault EXCEPT ![r] = IF up THEN @ ELSE "getProduct"]
             /\ IF last
                THEN ReplyWith(r, 200, "none", 0, cartView(details, sum))
                     /\ UNCHANGED idx
                ELSE /\ idx' = [idx EXCEPT ![r] = @ + 1]
                     /\ UNCHANGED <<pc, resp>>
  /\ UNCHANGED <<stores, cart, orderItems, totalAmount, order, fetched, nextId,
                 started, req, arrival, pay, decLog>>

\* ------------------------------------------------------------- GET /orders
ListOrdersStart(r) ==
  /\ free(r)
  /\ \E u \in Users :
       Accept(r, [NoReq EXCEPT !.op = "listOrders", !.user = u], "lo_find")

Reverse(s) == [i \in 1..Len(s) |-> s[Len(s) + 1 - i]]

\* the filter the query runs with
ownedByAnyone(o, u) == TRUE

\* { userId: req.user.userId }
ownedBy(o, u) == o.userId = u

\* Order.find({ userId }).sort({ createdAt: -1 })
findOrders(os, u) == Reverse(SelectSeq(os, LAMBDA o : ownedBy(o, u)))

ListOrdersFind(r) ==
  /\ pc[r] = "lo_find"
  /\ ReplyWith(r, 200, "none", 0, findOrders(orders, req[r].user))
  /\ UNCHANGED <<stores, locals, nextId, started, req, reads, fault, arrival, pay,
                 catalogCalls, decLog>>

\* --------------------------------------------------------- GET /orders/:id
GetOrderStart(r) ==
  /\ free(r)
  /\ \E u \in Users, o \in OrderIds :
       Accept(r, [NoReq EXCEPT !.op = "getOrder", !.user = u, !.orderId = o],
              "go_find")

\* Order.findOne({ _id, userId }): position in the collection, 0 for null
findOrder(os, id, u) ==
  FirstIndex(os, LAMBDA o : o.id = id /\ ownedBy(o, u))

GetOrderFind(r) ==
  /\ pc[r] = "go_find"
  /\ LET i == findOrder(orders, req[r].orderId, req[r].user)
     IN IF i = 0
        THEN Reply(r, 404, "Order not found", 0)
        ELSE ReplyWith(r, 200, "none", orders[i].id, orders[i])
  /\ UNCHANGED <<stores, locals, nextId, started, req, reads, fault, arrival, pay,
                 catalogCalls, decLog>>

\* ---------------------------------------------- PATCH /orders/:id/status
UpdateStatusStart(r) ==
  /\ free(r)
  /\ \E u \in Users, o \in OrderIds, st \in StatusInputs :
       Accept(r, [NoReq EXCEPT !.op = "updateStatus", !.user = u,
                               !.orderId = o, !.status = st], "us_update")

\* the update also resets the stored total
setStatusAndTotal(o, st) == [o EXCEPT !.status = st, !.totalAmount = 0]

\* a delivered order keeps its status
setStatusUnlessDelivered(o, st) ==
  IF o.status = "delivered" THEN o ELSE [o EXCEPT !.status = st]

\* the update document { status, updatedAt: new Date() }
setStatus(o, st) == [o EXCEPT !.status = st]

\* the options are { new: true }: update validators, which are off unless
\* runValidators is passed, do not check the enum of `status`
runValidators == FALSE

\* Order.findOneAndUpdate({ _id, userId }, { status, updatedAt }, { new: true })
UpdateStatusUpdate(r) ==
  /\ pc[r] = "us_update"
  /\ LET i == findOrder(orders, req[r].orderId, req[r].user)
     IN IF runValidators /\ req[r].status \notin OrderStatuses
        THEN /\ Reply(r, catchStatus("Validation failed"), "Validation failed", 0)
             /\ UNCHANGED <<orders, order>>
        ELSE IF i = 0
        THEN Reply(r, 404, "Order not found", 0) /\ UNCHANGED <<orders, order>>
        ELSE /\ orders' = [orders EXCEPT ![i] = setStatus(@, req[r].status)]
             /\ order' = [order EXCEPT ![r] = req[r].orderId]
             /\ pc' = [pc EXCEPT ![r] = "us_notify"]
             /\ UNCHANGED resp
  /\ UNCHANGED <<stock, carts, notifications, cart, idx, orderItems,
                 totalAmount, fetched, nextId, started, req, reads, fault, arrival, pay,
                 catalogCalls, decLog>>

UpdateStatusNotify(r) ==
  /\ pc[r] = "us_notify"
  /\ \E sent \in BOOLEAN :
       /\ notifications' = IF sent
            THEN notifications \cup {[type |-> "order_status_updated",
                                      orderId |-> order[r]]}
            ELSE notifications
       /\ fault' = [fault EXCEPT ![r] = IF sent THEN @ ELSE "notify"]
       /\ Reply(r, afterNotify(sent, 200), "none", order[r])
  /\ UNCHANGED <<stock, carts, orders, locals, nextId, started, req, reads, arrival, pay,
                 catalogCalls, decLog>>

\* ------------------------- product service: PATCH /products/:id/stock
\* requests that reach the stock endpoint from outside the order service
AdjustStockStart(r) ==
  /\ free(r)
  /\ \E s \in IdStrings, q \in StockQtyInputs, op \in OperationInputs :
       Accept(r, [NoReq EXCEPT !.op = "adjustStock", !.productId = s,
                               !.quantity = q, !.operation = op], "as_find")

\* product.stock += quantity
increaseStock(s, q) == s + q

\* operation === 'decrease' && product.stock < quantity
refused(op, s, q) == op = "decrease" /\ insufficient(s, q)

\* if (operation === 'decrease') ... else if (operation === 'increase') ...
adjusted(op, s, q) ==
  IF op = "decrease" THEN decreaseStock(s, q)
  ELSE IF op = "increase" THEN increaseStock(s, q)
  ELSE s

\* const product = await Product.findById(req.params.id); 404 without it,
\* 400 when a decrease asks for more than product.stock
AdjustStockFind(r) ==
  /\ pc[r] = "as_find"
  /\ LET p == castObjectId(req[r].productId)
     IN IF p \notin Products
        THEN Reply(r, 404, "Product not found", 0) /\ UNCHANGED fetched
        ELSE /\ fetched' = [fetched EXCEPT ![r] = stock[p]]
             /\ IF refused(req[r].operation, stock[p], req[r].quantity)
                THEN Reply(r, 400, "Insufficient stock", 0)
                ELSE pc' = [pc EXCEPT ![r] = "as_save"] /\ UNCHANGED resp
  /\ UNCHANGED <<stores, cart, idx, orderItems, totalAmount, order, nextId,
                 started, req, reads, fault, arrival, pay, catalogCalls, decLog>>

\* await product.save(); res.json({ message, newStock: product.stock })
AdjustStockSave(r) ==
  /\ pc[r] = "as_save"
  /\ LET p == castObjectId(req[r].productId)
         newStock == adjusted(req[r].operation, fetched[r], req[r].quantity)
     IN /\ stock' = [stock EXCEPT ![p] = newStock]
        /\ ReplyWith(r, 200, "none", 0, newStock)
  /\ UNCHANGED <<carts, orders, notifications, locals, nextId, started, req,
                 reads, fault, arrival, pay, catalogCalls, decLog>>

\* ------------------------------------- payment service: POST /payments/process
ProcessPaymentStart(r) ==
  /\ free(r)
  /\ \E a \in AmountInputs, m \in MethodInputs :
       Accept(r, [NoReq EXCEPT !.op = "processPayment", !.amount = a,
                               !.method = m], "pp_create")

\* const payment = new Payment({ ..., status: 'processing' });
\* await payment.save(): validation rejects a method outside the enum, and
\* the outer catch answers 500
ProcessPaymentCreate(r) ==
  /\ pc[r] = "pp_create"
  /\ IF req[r].method \notin PaymentMethods
     THEN /\ Reply(r, 500, "ValidationError", 0)
          /\ UNCHANGED <<payments, payment, nextId>>
     ELSE LET doc == [id |-> nextId, amount |-> req[r].amount,
                      status |-> "processing", refundAmount |-> 0]
          IN /\ payments' = Append(payments, doc)
             /\ payment' = [payment EXCEPT ![r] = doc]
             /\ nextId' = nextId + 1
             /\ pc' = [pc EXCEPT ![r] = "pp_provider"]
             /\ UNCHANGED resp
  /\ UNCHANGED <<stores, locals, reads, arrival, started, req, fault,
                 catalogCalls, decLog, refunds>>

\* payment.status = 'completed' after paymentResult.success, 'failed' after
\* a decline
providerStatus(success) == IF success THEN "completed" ELSE "failed"

\* await processPaymentWithProvider(...); payment.status = ...
ProcessPaymentProvider(r) ==
  /\ pc[r] = "pp_provider"
  /\ \E success \in BOOLEAN :
       payment' = [payment EXCEPT ![r].status = providerStatus(success)]
  /\ pc' = [pc EXCEPT ![r] = "pp_save"]
  /\ UNCHANGED <<stores, locals, reads, arrival, started, req, resp, fault,
                 catalogCalls, decLog, nextId, payments, refunds>>

\* index of the payment with _id id, 0 when there is none
paymentIndex(ps, id) == FirstIndex(ps, LAMBDA x : x.id = id)

\* await payment.save(): $set of the modified status
ProcessPaymentSave(r) ==
  /\ pc[r] = "pp_save"
  /\ LET d == paymentIndex(payments, payment[r].id)
     IN payments' = [payments EXCEPT ![d].status = payment[r].status]
  /\ pc' = [pc EXCEPT ![r] = "pp_notify"]
  /\ UNCHANGED <<stores, locals, reads, arrival, started, req, resp, fault,
                 catalogCalls, decLog, nextId, payment, refunds>>

\* try { await axios.post(.../notifications/send) } catch { console.error };
\* res.json({ success: true, ... }) or res.status(400).json({ success: false })
ProcessPaymentNotify(r) ==
  /\ pc[r] = "pp_notify"
  /\ LET ok == payment[r].status = "completed"
         note == [type |-> IF ok THEN "payment_success" ELSE "payment_failed",
                  paymentId |-> payment[r].id]
     IN /\ \E sent \in BOOLEAN :
             /\ notifications' = IF sent THEN notifications \cup {note}
                                  ELSE notifications
             /\ fault' = [fault EXCEPT ![r] = IF sent THEN @ ELSE "notify"]
        /\ ReplyWith(r, IF ok THEN 200 ELSE 400,
                     IF ok THEN "none" ELSE "declined", 0, payment[r])
  /\ UNCHANGED <<stock, carts, orders, locals, reads, arrival, started, req,
                 catalogCalls, decLog, nextId, pay>>

\* ---------------------------------- payment service: POST /payments/:id/refund
RefundStart(r) ==
  /\ free(r)
  /\ \E id \in PaymentIds, a \in RefundInputs :
       Accept(r, [NoReq EXCEPT !.op = "refund", !.paymentId = id,
                               !.amount = a], "rf_find")

\* Payment.findById(req.params.id)
findPayment(ps, id) ==
  LET i == paymentIndex(ps, id)
  IN IF i = 0 THEN NoPayment ELSE ps[i]

\* amount > (payment.amount - payment.refundAmount)
exceedsAvailable(a, p) == a > p.amount - p.refundAmount

\* const payment = await Payment.findById(...); 404 without it, 400 unless
\* it is completed, 400 when the amount exceeds what is left to refund
RefundFind(r) ==
  /\ pc[r] = "rf_find"
  /\ LET p == findPayment(payments, req[r].paymentId)
     IN /\ payment' = [payment EXCEPT ![r] = p]
        /\ IF p = NoPayment
           THEN Reply(r, 404, "Payment not found", 0)
           ELSE IF p.status # "completed"
           THEN Reply(r, 400, "Payment not eligible for refund", 0)
           ELSE IF exceedsAvailable(req[r].amount, p)
           THEN Reply(r, 400, "Refund amount exceeds available amount", 0)
           ELSE pc' = [pc EXCEPT ![r] = "rf_provider"] /\ UNCHANGED resp
  /\ UNCHANGED <<stores, locals, reads, arrival, started, req, fault,
                 catalogCalls, decLog, nextId, payments, refunds>>

\* payment.refundAmount += amount;
\* payment.status = payment.refundAmount >= payment.amount ? 'refunded' : 'completed'
refundApplied(p, a) ==
  [p EXCEPT !.refundAmount = @ + a,
            !.status = IF p.refundAmount + a >= p.amount THEN "refunded"
                       ELSE "completed"]

\* const refundResult = await processRefund(...): the provider carries the
\* refund out or declines it (400)
RefundProvider(r) ==
  /\ pc[r] = "rf_provider"
  /\ \E success \in BOOLEAN :
       IF success
       THEN /\ refunds' = Append(refunds, [paymentId |-> payment[r].id,
                                           amount |-> req[r].amount])
            /\ payment' = [payment EXCEPT ![r] = refundApplied(@, req[r].amount)]
            /\ pc' = [pc EXCEPT ![r] = "rf_save"]
            /\ UNCHANGED resp
       ELSE /\ Reply(r, 400, "Refund processing failed", 0)
            /\ UNCHANGED <<refunds, payment>>
  /\ UNCHANGED <<stores, locals, reads, arrival, started, req, fault,
                 catalogCalls, decLog, nextId, payments>>

\* await payment.save(): $set of the modified paths, which are refundAmount
\* and, when it became 'refunded', status; res.json({ success: true, ... })
RefundSave(r) ==
  /\ pc[r] = "rf_save"
  /\ LET d == paymentIndex(payments, payment[r].id)
     IN payments' = [payments EXCEPT
          ![d].refundAmount = payment[r].refundAmount,
          ![d].status = IF payment[r].status = "completed" THEN @
                        ELSE payment[r].status]
  /\ ReplyWith(r, 200, "none", 0, payment[r])
  /\ UNCHANGED <<stores, locals, reads, arrival, started, req, fault,
                 catalogCalls, decLog, nextId, payment, refunds>>

\* ------------------------------------------------------------ authentication
\* the user a token was issued to, "none" for a token that is not valid
userOf(t) == IF t = "t1" THEN "u1" ELSE "none"

\* what POST /auth/verify of the user service can answer for a token, as its
\* callers tell the answers apart: no answer at all, a non-2xx status, or a
\* 2xx body { valid, user }
verifyAnswers(t) ==
  LET A(reached, ok, valid) ==
        [reached |-> reached, ok |-> ok, valid |-> valid,
         user |-> IF valid THEN userOf(t) ELSE "none"]
  IN IF userOf(t) \in Users
     THEN {A(TRUE, TRUE, TRUE), A(FALSE, FALSE, FALSE)}
     ELSE {A(TRUE, TRUE, FALSE), A(TRUE, FALSE, FALSE), A(FALSE, FALSE, FALSE)}

\* the order-service routes behind verifyUser that are followed here
OrderRoutes == {"getCart", "addItem", "createOrder", "listOrders"}

\* the first await of the handler of a route
firstStep(op) ==
  CASE op = "getCart" -> "gc_find"
    [] op = "addItem" -> "ai_verify"
    [] op = "createOrder" -> "co_findCart"
    [] op = "listOrders" -> "lo_find"

\* a request reaches the order service directly
OrderServiceArrive(r) ==
  /\ free(r)
  /\ \E op \in OrderRoutes, t \in Tokens :
       Accept(r, [NoReq EXCEPT !.op = op, !.token = t, !.productId = "a",
                               !.quantity = 1], "verify")

\* verifyUser: axios.post(.../auth/verify, { token }); next() when
\* response.data.valid, 401 'Invalid token' otherwise; a non-2xx answer or
\* none makes axios throw: 401 'Authentication failed'
VerifyUser(r) ==
  /\ pc[r] = "verify"
  /\ \E ans \in verifyAnswers(req[r].token) :
       IF ans.reached /\ ans.ok
       THEN IF ans.valid
            THEN /\ req' = [req EXCEPT ![r].user = ans.user, ![r].valid = TRUE]
                 /\ pc' = [pc EXCEPT ![r] = firstStep(req[r].op)]
                 /\ UNCHANGED resp
            ELSE /\ Reply(r, 401, "Invalid token", 0)
                 /\ UNCHANGED req
       ELSE /\ Reply(r, 401, "Authentication failed", 0)
            /\ UNCHANGED req
  /\ UNCHANGED <<stores, locals, reads, arrival, pay, started, fault, nextId,
                 catalogCalls, decLog>>

\* the protected routes of the gateway
GatewayPaths == {"/api/users", "/api/orders", "/api/cart", "/api/payments",
                 "/api/notifications"}

\* the order-service routes a gateway path leads to; "proxied" stands for a
\* route of the user, payment or notification service
routesOf(path) ==
  CASE path = "/api/cart" -> {"getCart", "addItem"}
    [] path = "/api/orders" -> {"createOrder", "listOrders"}
    [] OTHER -> {"proxied"}

\* a request reaches a protected route of the gateway
GatewayArrive(r) ==
  /\ free(r)
  /\ \E path \in GatewayPaths, t \in Tokens :
       \E op \in routesOf(path) :
         Accept(r, [NoReq EXCEPT !.op = op, !.path = path, !.token = t,
                                 !.productId = "a", !.quantity = 1], "gw_auth")

\* if (response.ok) { req.user = data.user; next() }
forwards(ans) == ans.ok

\* authenticateToken: 401 without a token; fetch(.../auth/verify); next()
\* when response.ok, 401 'Invalid token' otherwise, 500 when fetch throws
AuthenticateToken(r) ==
  /\ pc[r] = "gw_auth"
  /\ IF req[r].token = "none"
     THEN Reply(r, 401, "Access token required", 0) /\ UNCHANGED <<req, fault>>
     ELSE \E ans \in verifyAnswers(req[r].token) :
            IF ~ans.reached
            THEN /\ Reply(r, 500, "Authentication service unavailable", 0)
                 /\ fault' = [fault EXCEPT ![r] = "verify"]
                 /\ UNCHANGED req
            ELSE IF forwards(ans)
            THEN /\ req' = [req EXCEPT ![r].user = ans.user,
                                        ![r].valid = ans.valid]
                 /\ pc' = [pc EXCEPT ![r] = "gw_proxy"]
                 /\ UNCHANGED <<resp, fault>>
            ELSE /\ Reply(r, 401, "Invalid token", 0)
                 /\ UNCHANGED <<req, fault>>
  /\ UNCHANGED <<stores, locals, reads, arrival, pay, started, nextId,
                 catalogCalls, decLog>>

\* createProxyMiddleware({ target, pathRewrite }): the request goes to the
\* target with its headers; the order service starts with its verifyUser,
\* the other targets answer; onError answers 503
Proxy(r) ==
  /\ pc[r] = "gw_proxy"
  /\ \E up \in BOOLEAN :
       IF ~up
       THEN /\ Reply(r, 503, "Service temporarily unavailable", 0)
            /\ fault' = [fault EXCEPT ![r] = "proxy"]
            /\ UNCHANGED req
       ELSE /\ UNCHANGED fault
            /\ IF req[r].op = "proxied"
               THEN Reply(r, 200, "none", 0) /\ UNCHANGED req
               ELSE /\ req' = [req EXCEPT ![r].user = "none", ![r].valid = FALSE]
                    /\ pc' = [pc EXCEPT ![r] = "verify"]
                    /\ UNCHANGED resp
  /\ UNCHANGED <<stores, locals, reads, arrival, pay, started, nextId,
                 catalogCalls, decLog>>

\* ------------------------------------------------------- specifications
CheckoutStep(r) ==
  \/ CreateOrderStart(r)
  \/ CreateOrderFindCart(r)
  \/ CreateOrderLookup(r)
  \/ CreateOrderSave(r)
  \/ CreateOrderDecFind(r)
  \/ CreateOrderDecSave(r)
  \/ CreateOrderClearCart(r)
  \/ CreateOrderNotify(r)

CartStep(r) ==
  \/ AddItemStart(r)
  \/ AddItemVerify(r)
  \/ AddItemFind(r)
  \/ AddItemSave(r)
  \/ GetCartStart(r)
  \/ GetCartFind(r)
  \/ GetCartLookup(r)

UpdateStatusStep(r) ==
  \/ UpdateStatusStart(r)
  \/ UpdateStatusUpdate(r)
  \/ UpdateStatusNotify(r)

OrderStep(r) ==
  \/ UpdateStatusStep(r)
  \/ ListOrdersStart(r)
  \/ ListOrdersFind(r)
  \/ GetOrderStart(r)
  \/ GetOrderFind(r)

StockStep(r) ==
  \/ AdjustStockStart(r)
  \/ AdjustStockFind(r)
  \/ AdjustStockSave(r)

Step(r) ==
  \/ CartStep(r)
  \/ CheckoutStep(r)
  \/ OrderStep(r)
  \/ StockStep(r)

Next == \E r \in Reqs : Step(r)

\* requests of any kind and any users interleave at every await
Spec == Init /\ [][Next]_vars

\* requests of any kind, each answered before the next one arrives
SpecSeq == InitSeq /\ [][Next]_vars

\* requests of any kind on a service that holds orders, each answered before
\* the next one arrives
SpecHistory == InitHistory /\ [][Next]_vars

NextCheckout == \E r \in Reqs : CheckoutStep(r)

\* checkouts of any users interleave at every await, on the carts that
\* earlier requests have left
SpecCheckout == Init /\ [][NextCheckout]_vars

\* a checkout goes on once the database has answered its findOne, save or
\* deleteOne.  Its axios.get, axios.patch and axios.post are made without a
\* `timeout` option, and axios waits without limit by default: nothing makes
\* the steps that end these calls happen
DatabaseAnswers(r) ==
  /\ WF_vars(CreateOrderFindCart(r))
  /\ WF_vars(CreateOrderSave(r))
  /\ WF_vars(CreateOrderClearCart(r))

\* interleaved checkouts whose collaborators may never answer
SpecLive == Init /\ [][NextCheckout]_vars /\ \A r \in Reqs : DatabaseAnswers(r)

\* checkouts on the carts that earlier requests have left, each answered
\* before the next one arrives
SpecCheckoutSeq == InitSeq /\ [][NextCheckout]_vars

NextOrdering == \E r \in Reqs : CheckoutStep(r) \/ UpdateStatusStep(r)

\* checkouts and status updates, each answered before the next one arrives
SpecOrdering == InitSeq /\ [][NextOrdering]_vars

NextOrders == \E r \in Reqs : OrderStep(r)

\* reads and status updates of any users interleave on the orders that
\* earlier checkouts have left
SpecOrders == InitOrdersConc /\ [][NextOrders]_vars

\* the service holds the cart of u1 and stock for a checkout by every request
StartSameCart ==
  /\ NoRequests
  /\ stock = [p \in Products |-> MaxRequests]
  /\ initStock = stock
  /\ carts \in {cs \in InitCarts : Len(cs) = 1 /\ cs[1].userId = "u1"}
  /\ initCarts = carts
  /\ payments = <<>>
  /\ refunds = <<>>
  /\ orders = <<>>
  /\ nextId = 3

InitSameCart == StartSameCart /\ serial = FALSE

\* checkouts interleave at every await on the one cart of u1
SpecSameCart == InitSameCart /\ [][NextCheckout]_vars

InitRetry == StartSameCart /\ serial = TRUE

\* checkouts on the one cart of u1, each answered before the next one arrives
SpecRetry == InitRetry /\ [][NextCheckout]_vars

NextStock == \E r \in Reqs : StockStep(r)

\* stock adjustments interleave at the awaits of the stock endpoint
SpecStock == Init /\ [][NextStock]_vars

AddItemStep(r) ==
  \/ AddItemStart(r)
  \/ AddItemVerify(r)
  \/ AddItemFind(r)
  \/ AddItemSave(r)

NextAdd == \E r \in Reqs : AddItemStep(r)

\* additions to the carts interleave at every await
SpecAdd == Init /\ [][NextAdd]_vars

PaymentStep(r) ==
  \/ ProcessPaymentStart(r)
  \/ ProcessPaymentCreate(r)
  \/ ProcessPaymentProvider(r)
  \/ ProcessPaymentSave(r)
  \/ ProcessPaymentNotify(r)
  \/ RefundStart(r)
  \/ RefundFind(r)
  \/ RefundProvider(r)
  \/ RefundSave(r)

NextPayments == \E r \in Reqs : PaymentStep(r)

\* payments that earlier requests have left behind, with the refunds the
\* provider has carried out for them: none, or one payment of amount 2 that
\* failed, or that is completed with nothing or half of it refunded, or that
\* is refunded
PaymentHistories ==
  LET P(st, ra) == [id |-> 1, amount |-> 2, status |-> st, refundAmount |-> ra]
      R(a) == [paymentId |-> 1, amount |-> a]
  IN {<< <<>>, <<>> >>,
      << <<P("failed", 0)>>, <<>> >>,
      << <<P("completed", 0)>>, <<>> >>,
      << <<P("completed", 1)>>, <<R(1)>> >>,
      << <<P("refunded", 2)>>, <<R(2)>> >>,
      << <<P("refunded", 2)>>, <<R(1), R(1)>> >>}

StartPayments ==
  /\ NoRequests
  /\ \E h \in PaymentHistories : payments = h[1] /\ refunds = h[2]
  /\ stock = [p \in Products |-> MaxStock]
  /\ initStock = stock
  /\ carts = <<>>
  /\ initCarts = carts
  /\ orders = <<>>
  /\ nextId = 3

\* payment and refund requests interleave at every await
InitPayments == StartPayments /\ serial = FALSE

SpecPayments == InitPayments /\ [][NextPayments]_vars

\* payment and refund requests, each answered before the next one arrives
InitPaymentsSeq == StartPayments /\ serial = TRUE

SpecPaymentsSeq == InitPaymentsSeq /\ [][NextPayments]_vars

AuthStep(r) ==
  \/ OrderServiceArrive(r)
  \/ VerifyUser(r)
  \/ GatewayArrive(r)
  \/ AuthenticateToken(r)
  \/ Proxy(r)

\* what follows verifyUser on the routes of OrderRoutes
HandlerStep(r) ==
  \/ GetCartFind(r)
  \/ GetCartLookup(r)
  \/ AddItemVerify(r)
  \/ AddItemFind(r)
  \/ AddItemSave(r)
  \/ CreateOrderFindCart(r)
  \/ CreateOrderLookup(r)
  \/ CreateOrderSave(r)
  \/ CreateOrderDecFind(r)
  \/ CreateOrderDecSave(r)
  \/ CreateOrderClearCart(r)
  \/ CreateOrderNotify(r)
  \/ ListOrdersFind(r)

NextAuth == \E r \in Reqs : AuthStep(r) \/ HandlerStep(r)

\* requests with any token, sent to the order service or to the gateway,
\* each answered before the next one arrives
SpecAuth == InitSeq /\ [][NextAuth]_vars

NextCart == \E r \in Reqs : CartStep(r)

\* the carts that earlier requests have left; the cart routes do not look at
\* the stock, which is full
InitCartRoutes ==
  /\ NoRequests
  /\ stock = [p \in Products |-> MaxStock]
  /\ initStock = stock
  /\ carts \in InitCarts
  /\ initCarts = carts
  /\ payments = <<>>
  /\ refunds = <<>>
  /\ orders = <<>>
  /\ nextId = 3
  /\ serial = TRUE

\* additions to and reads of the carts, each answered before the next one
\* arrives
SpecCart == InitCartRoutes /\ [][NextCart]_vars

\* ---------------------------------------------------------------- claims
Done(r, op) == pc[r] = "done" /\ req[r].op = op

\* no cart document, or one without lines
noLines(c) == c.items = <<>>

\* every line asks for no more than the stock st holds of its product
allFit(items, st) ==
  \A i \in 1..Len(items) : items[i].quantity <= st[items[i].productId]

\* quantity of product p over the lines of items
orderedQty(items, p) ==
  SumSeq([i \in 1..Len(items) |->
            IF items[i].productId = p THEN items[i].quantity ELSE 0])

sameLines(orderLines, cartLines) ==
  /\ Len(orderLines) = Len(cartLines)
  /\ \A i \in 1..Len(cartLines) :
       /\ orderLines[i].productId = cartLines[i].productId
       /\ orderLines[i].quantity = cartLines[i].quantity

distinctLines(items) ==
  \A i, j \in 1..Len(items) :
    items[i].productId = items[j].productId => i = j

\* C1: with no request in flight besides it and no failing collaborator, a
\* createOrder on a non-empty cart answers 201 exactly when every line's
\* quantity is within the stock of its product; otherwise it answers 400
\* "Insufficient stock" and orders, stock and the cart are as it found them.
C1_SucceedsIffStock ==
  \A r \in Reqs :
    (Done(r, "createOrder") /\ ~noLines(cart[r]) /\ fault[r] = "none") =>
      /\ resp[r].status = 201 <=> allFit(cart[r].items, stock0[r])
      /\ ~allFit(cart[r].items, stock0[r]) =>
           /\ resp[r].status = 400
           /\ resp[r].error = "Insufficient stock"
           /\ Len(orders) = orders0[r]
           /\ stock = stock0[r]
           /\ findCart(carts, req[r].user) = cart[r]

\* C2: once a createOrder has answered 201 (no other request in flight), the
\* user has no cart line left, and exactly one order was added: it is the
\* user's, its lines are the cart's lines, its totalAmount is the sum of
\* price x quantity over its lines, and status and paymentStatus are pending.
C2_SuccessClearsCartAndAddsOrder ==
  \A r \in Reqs :
    (Done(r, "createOrder") /\ resp[r].status = 201) =>
      /\ noLines(findCart(carts, req[r].user))
      /\ Len(orders) = orders0[r] + 1
      /\ LET o == orders[Len(orders)]
         IN /\ o.id = resp[r].orderId
            /\ o.userId = req[r].user
            /\ sameLines(o.items, cart[r].items)
            /\ o.totalAmount =
                 SumSeq([i \in 1..Len(o.items) |->
                           o.items[i].price * o.items[i].quantity])
            /\ \A i \in 1..Len(o.items) :
                 o.items[i].price = price(o.items[i].productId)
            /\ o.status = "pending"
            /\ o.paymentStatus = "pending"

C2_Witness ==
  \E r \in Reqs :
    /\ Done(r, "createOrder") /\ resp[r].status = 201
    /\ Len(cart[r].items) = 2
    /\ orders[Len(orders)].totalAmount = 17

\* C3: once a createOrder has answered 201 (no other request in flight), the
\* stock of every product is what it was when the request arrived minus the
\* quantity its order lines ask of that product, so products that are not
\* ordered keep their stock.
C3_StockLoweredByOrderedQuantity ==
  \A r \in Reqs :
    (Done(r, "createOrder") /\ resp[r].status = 201) =>
      \A p \in Products :
        stock[p] = stock0[r][p] - orderedQty(orders[Len(orders)].items, p)

C3_Witness ==
  \E r \in Reqs :
    /\ Done(r, "createOrder") /\ resp[r].status = 201
    /\ stock0[r]["a"] = 1 /\ stock["a"] = 0
    /\ stock0[r]["b"] = 1 /\ stock["b"] = 1

\* C4: a createOrder that finds no cart, or a cart without lines, answers 400
\* "Cart is empty", has called the catalog zero times and has persisted no
\* order (the Order collection and the stock are as the request found them).
C4_EmptyCartRejected ==
  \A r \in Reqs :
    (Done(r, "createOrder") /\ noLines(cart[r])) =>
      /\ resp[r].status = 400
      /\ resp[r].error = "Cart is empty"
      /\ catalogCalls[r] = 0
      /\ order[r] = 0
      /\ Len(orders) = orders0[r]
      /\ stock = stock0[r]

C4_Witness ==
  \E r \in Reqs :
    /\ Done(r, "createOrder") /\ cart[r] = NoCart /\ resp[r].status = 400

\* quantity of product p over the lines of all persisted orders
totalOrdered(p) ==
  SumSeq([i \in 1..Len(orders) |-> orderedQty(orders[i].items, p)])

\* C5: in every interleaving of requests, the quantity of a product over all
\* persisted orders never exceeds the stock the product started with.
C5_NoOrderBeyondStock ==
  \A p \in Products : totalOrdered(p) <= initStock[p]

\* C6: every stock decrement applied for createOrder is the decrement of a
\* line of an order that is in the Order collection.
C6_DecrementsBelongToOrders ==
  \A d \in decLog :
    \E i \in 1..Len(orders) :
      /\ orders[i].id = d.orderId
      /\ d.line \in 1..Len(orders[i].items)
      /\ orders[i].items[d.line].productId = d.productId
      /\ orders[i].items[d.line].quantity = d.quantity

C6_Witness ==
  \E d, e \in decLog : d.orderId = e.orderId /\ d.line = 1 /\ e.line = 2

\* what a createOrder that changed nothing leaves behind
noSideEffects(r) ==
  /\ order[r] = 0
  /\ Len(orders) = orders0[r]
  /\ stock = stock0[r]
  /\ findCart(carts, req[r].user) = cart[r]
  /\ Cardinality(notifications) = notifs0[r]

decrementFailed(r) ==
  \/ fault[r] = "adjustStock"
  \/ resp[r].error = "Request failed with status code 400"

\* C8: a createOrder whose stock-decrement call failed after the order was
\* persisted still answers 201 with that order.
C8_DecrementFailureAbsorbed ==
  \A r \in Reqs :
    (Done(r, "createOrder") /\ order[r] # 0 /\ decrementFailed(r)) =>
      resp[r].status = 201 /\ resp[r].orderId = order[r]

\* C9: when the notification call failed (no other request in flight),
\* createOrder has answered 201 with the persisted order, the cart is cleared
\* and the stock decremented; updateStatus has answered 200 with the order,
\* whose stored status is the requested one.
C9_NotificationFailureSwallowed ==
  \A r \in Reqs :
    (pc[r] = "done" /\ fault[r] = "notify") =>
      /\ req[r].op = "createOrder" =>
           /\ resp[r].status = 201
           /\ resp[r].orderId = order[r]
           /\ Len(orders) = orders0[r] + 1
           /\ orders[Len(orders)].id = order[r]
           /\ noLines(findCart(carts, req[r].user))
           /\ \A p \in Products :
                stock[p] = stock0[r][p] - orderedQty(orders[Len(orders)].items, p)
      /\ req[r].op = "updateStatus" =>
           /\ resp[r].status = 200
           /\ resp[r].orderId = req[r].orderId
           /\ \E i \in 1..Len(orders) :
                /\ orders[i].id = req[r].orderId
                /\ orders[i].userId = req[r].user
                /\ orders[i].status = req[r].status

\* both notifications failed: the one of the createOrder that made the order
\* and the one of the updateStatus that delivered it
C9_Witness ==
  \E r \in Reqs :
    /\ Done(r, "updateStatus") /\ fault[r] = "notify"
    /\ notifications = {}
    /\ Len(orders) = 1 /\ orders[1].status = "delivered"

\* C10: every cart holds at most one line per productId, and a successful
\* addItem (no other request in flight) has added its quantity to the line of
\* its product when the cart had one, and has appended one line otherwise,
\* leaving the other lines as they were.
C10_OneLinePerProduct ==
  /\ \A i \in 1..Len(carts) : distinctLines(carts[i].items)
  /\ \A r \in Reqs :
       (Done(r, "addItem") /\ resp[r].status = 200) =>
         LET before == cart[r].items
             after == findCart(carts, req[r].user).items
             p == castObjectId(req[r].productId)
             q == req[r].quantity
             i == FirstIndex(before, LAMBDA it : it.productId = p)
         IN IF i # 0
            THEN after = [before EXCEPT ![i].quantity = @ + q]
            ELSE after = Append(before, [productId |-> p, quantity |-> q])

\* the order with this id exists and is another user's
othersOrder(id, u) ==
  \E i \in 1..Len(orders) : orders[i].id = id /\ orders[i].userId # u

\* request r has just run its findOneAndUpdate
updated(r) == pc[r] = "us_update" /\ pc'[r] # "us_update"

\* C11: a getOrder or updateStatus for an order that exists but is another
\* user's answers 404, a getOrder that answers 200 returns the caller's order
\* of the id asked for, a listOrders returns exactly the caller's orders, and
\* a step changes a stored order only when it is the status update of a
\* request of the order's owner.
C11_OrdersScopedToUser ==
  /\ [](\A r \in Reqs :
          /\ (req[r].op \in {"getOrder", "updateStatus"}
              /\ othersOrder(req[r].orderId, req[r].user)) =>
               /\ pc[r] # "us_notify"
               /\ pc[r] = "done" => resp[r].status = 404
          /\ (Done(r, "getOrder") /\ resp[r].status = 200) =>
               /\ resp[r].body.userId = req[r].user
               /\ resp[r].body.id = req[r].orderId
          /\ Done(r, "listOrders") =>
               /\ \A i \in 1..Len(resp[r].body) :
                    resp[r].body[i].userId = req[r].user
               /\ {resp[r].body[i].id : i \in 1..Len(resp[r].body)} =
                    {orders[i].id : i \in {j \in 1..Len(orders) :
                                            orders[j].userId = req[r].user}})
  /\ [][\A i \in 1..Len(orders) :
          orders'[i] # orders[i] =>
            \E r \in Reqs : /\ updated(r)
                            /\ req[r].user = orders[i].userId
                            /\ req[r].orderId = orders[i].id]_vars

\* u2 has asked for the order of u1 and got 404 while a listing returned one
\* of the two stored orders
C11_Witness ==
  \E r, l \in Reqs :
    /\ Done(r, "getOrder") /\ resp[r].status = 404
    /\ othersOrder(req[r].orderId, req[r].user)
    /\ Done(l, "listOrders") /\ Len(resp[l].body) = 1 /\ Len(orders) = 2

\* the order request r asks for exists and is the caller's
ownOrder(r) ==
  \E i \in 1..Len(orders) :
    orders[i].id = req[r].orderId /\ orders[i].userId = req[r].user

C13_OrdersImmutable ==
  [][/\ Len(orders') >= Len(orders)
     /\ \A i \in 1..Len(orders) :
          orders'[i] = [orders[i] EXCEPT !.status = orders'[i].status]]_vars

\* a stored order was delivered and a checkout that lowered the stock has
\* added another order since; the delivered order holds its line and total
C13_Witness ==
  /\ Len(orders) = 3
  /\ orders[1].status = "delivered"
  /\ orders[1].totalAmount = price("a")
  /\ Len(orders[1].items) = 1
  /\ stock["a"] = MaxStock - 1

\* C14: every stored order has a status of the status enum and a
\* paymentStatus of the paymentStatus enum, whatever status the updateStatus
\* requests have asked for.
C14_StatusWithinEnum ==
  \A i \in 1..Len(orders) :
    /\ orders[i].status \in OrderStatuses
    /\ orders[i].paymentStatus \in PaymentStatuses

\* a call to the catalog failed for the request: a lookup or a stock
\* adjustment that got no answer or an error answer
catalogFailed(r) == fault[r] = "getProduct" \/ decrementFailed(r)

\* what every answer of createOrder has in common, whatever the status of a
\* failed call is: an empty cart answers 400 "Cart is empty", another 400 is
\* "Insufficient stock" and comes before any order is written, and 201
\* carries the order, which is stored
answersOfCreateOrder(r) ==
  /\ noLines(cart[r]) => resp[r].status = 400 /\ resp[r].error = "Cart is empty"
  /\ (resp[r].status = 400 /\ ~noLines(cart[r])) =>
       resp[r].error = "Insufficient stock" /\ order[r] = 0
  /\ resp[r].status = 201 =>
       /\ fault[r] \in {"none", "notify"}
       /\ resp[r].orderId = order[r]
       /\ \E i \in 1..Len(orders) :
            orders[i].id = order[r] /\ orders[i].userId = req[r].user

unknownProduct(r) == castObjectId(req[r].productId) \notin Products

\* request r has just got the catalog's answer to its existence check
verified(r) == pc[r] = "ai_verify" /\ pc'[r] # "ai_verify"

\* C16: an addItem gets to its cart only with a product the catalog holds,
\* and the step in which the catalog answers that the product is not found
\* ends the request with 404 and leaves the carts as they are.
C16_UnknownProductIs404 ==
  /\ [](\A r \in Reqs :
          (req[r].op = "addItem" /\ pc[r] \in {"ai_find", "ai_save"}) =>
            ~unknownProduct(r))
  /\ [][\A r \in Reqs :
          (verified(r) /\ unknownProduct(r) /\ fault'[r] = "none") =>
            /\ carts' = carts
            /\ pc'[r] = "done"
            /\ resp'[r].status = 404]_vars

\* request r, a getCart, has just taken a step
cartRead(r) ==
  /\ req[r].op = "getCart"
  /\ pc[r] \in {"gc_find", "gc_lookup"}
  /\ pc'[r] # pc[r] \/ idx'[r] # idx[r]

\* C17: no step of a getCart changes the Cart collection; a getCart answers
\* 200 whatever the catalog does, and for a user without cart it answers no
\* items and total 0 and has not called the catalog; served alone, it leaves
\* the user's cart as it found it.
C17_GetCartReadsOnly ==
  /\ [][\A r \in Reqs : cartRead(r) => carts' = carts]_vars
  /\ [](\A r \in Reqs : Done(r, "getCart") =>
          /\ resp[r].status = 200
          /\ findCart(carts, req[r].user) = cart[r]
          /\ cart[r] = NoCart =>
               /\ resp[r].body = [items |-> <<>>, total |-> 0]
               /\ catalogCalls[r] = 0)

\* a user without cart was answered while the other user has a cart
C17_Witness ==
  \E r \in Reqs :
    /\ Done(r, "getCart") /\ cart[r] = NoCart /\ resp[r].status = 200
    /\ resp[r].body.total = 0
    /\ Len(carts) = 1

\* what a stock adjustment served alone has answered and left behind
adjustedAsAsked(r) ==
  LET p == castObjectId(req[r].productId)
      q == req[r].quantity
      before == stock0[r]
  IN IF req[r].operation = "decrease" /\ q > before[p]
     THEN /\ resp[r].status = 400
          /\ resp[r].error = "Insufficient stock"
          /\ stock = before
     ELSE /\ resp[r].status = 200
          /\ stock = [before EXCEPT ![p] =
                        IF req[r].operation = "decrease" THEN @ - q ELSE @ + q]

\* C18: a stock adjustment of a product of the catalog, served alone, is
\* refused with 400 "Insufficient stock" and changes no stock when it is a
\* decrease by more than the stock, and otherwise lowers (decrease) or raises
\* (increase) the stock of its product by exactly its quantity; and the stock
\* of every product is a non-negative integer in every state.
C18_StockAdjustedWithinBounds ==
  /\ \A r \in Reqs :
       (Done(r, "adjustStock") /\ ~unknownProduct(r)) => adjustedAsAsked(r)
  /\ \A p \in Products : stock[p] \in Nat

\* request r has just run its cart.save()
saved(r) == pc[r] = "ai_save" /\ pc'[r] # "ai_save"

\* C19: every line of every cart has a quantity of at least 1, and an addItem
\* with a quantity below 1 for a product of the catalog is answered with a
\* client error and its save leaves the carts as they are.
C19_CartQuantitiesPositive ==
  /\ [](\A i \in 1..Len(carts) : \A j \in 1..Len(carts[i].items) :
          carts[i].items[j].quantity >= 1)
  /\ [](\A r \in Reqs :
          (Done(r, "addItem") /\ req[r].quantity < 1 /\ fault[r] = "none"
           /\ ~unknownProduct(r)) => resp[r].status \in 400..499)
  /\ [][\A r \in Reqs :
          (saved(r) /\ req[r].quantity < 1) => carts' = carts]_vars

\* C20: every createOrder that has arrived is answered in the end, also when
\* the catalog or the notification service never answers a call.
C20_CreateOrderAnswered ==
  \A r \in Reqs :
    (req[r].op = "createOrder" /\ pc[r] # "done") ~> (pc[r] = "done")

\* position of a status in the lifecycle pending, confirmed, processing,
\* shipped, delivered; cancelled ends it
lifecycleRank(st) ==
  CASE st = "pending" -> 1 [] st = "confirmed" -> 2 [] st = "processing" -> 3
    [] st = "shipped" -> 4 [] st = "delivered" -> 5 [] OTHER -> 6

\* C21: the status of an order only advances through the lifecycle: no step
\* moves a stored order from a status to an earlier one (delivered back to
\* pending, say).
C21_StatusOnlyAdvances ==
  [][\A i \in 1..Len(orders) :
       (orders[i].status \in OrderStatuses /\ orders'[i].status \in OrderStatuses)
         => lifecycleRank(orders'[i].status) >= lifecycleRank(orders[i].status)]_vars

\* the order of request r is stored with the lines of the cart r read, and
\* every line was decremented exactly once for it
checkedOut(r) ==
  /\ \E i \in 1..Len(orders) :
       /\ orders[i].id = order[r]
       /\ orders[i].userId = req[r].user
       /\ sameLines(orders[i].items, cart[r].items)
  /\ \A l \in 1..Len(cart[r].items) :
       Cardinality({d \in decLog :
                      /\ d.orderId = order[r] /\ d.line = l
                      /\ d.productId = cart[r].items[l].productId
                      /\ d.quantity = cart[r].items[l].quantity}) = 1
  /\ Cardinality({d \in decLog : d.orderId = order[r]}) = Len(cart[r].items)

\* C22: checkouts of one user on one cart are not serialized: two createOrder
\* requests of a user that have read the same non-empty cart and have both
\* answered 201 have each persisted an order of their own with the lines of
\* that cart, and the stock was decremented once per order and line.
C22_SameCartCheckedOutTwice ==
  \A r, o \in Reqs :
    (/\ r # o /\ Done(r, "createOrder") /\ Done(o, "createOrder")
     /\ req[r].user = req[o].user /\ cart[r] = cart[o] /\ ~noLines(cart[r])
     /\ resp[r].status = 201 /\ resp[o].status = 201) =>
      /\ order[r] # order[o]
      /\ checkedOut(r) /\ checkedOut(o)

\* both checkouts of u1 have read the cart with two lines and answered 201;
\* two orders are stored and the stock of both products is two lower
C22_Witness ==
  /\ \A r \in Reqs : Done(r, "createOrder") /\ resp[r].status = 201
  /\ cart[1] = cart[2] /\ Len(cart[1].items) = 2
  /\ Len(orders) = 2 /\ sameLines(orders[1].items, orders[2].items)
  /\ \A p \in Products : stock[p] = initStock[p] - 2

\* the order with _id id, NoOrder when it is not stored
NoOrder == [id |-> 0, userId |-> "none", items |-> <<>>, totalAmount |-> 0,
            status |-> "none", paymentStatus |-> "none"]

storedOrder(id) ==
  LET i == FirstIndex(orders, LAMBDA o : o.id = id)
  IN IF i = 0 THEN NoOrder ELSE orders[i]

\* every line of the order of request r has been decremented for it
allDecremented(r) ==
  \A l \in 1..Len(orderItems[r]) :
    \E d \in decLog : d.orderId = order[r] /\ d.line = l

\* C23: the steps of one createOrder come in a fixed order: the order is
\* written only after the lookup and stock check of every cart line; no stock
\* is decremented before the order is stored; the cart is cleared only after
\* the decrement of every line succeeded; the notification is sent only after
\* the cart was cleared; and 201 is answered after all of these.
C23_CheckoutStepOrder ==
  /\ \A r \in Reqs :
       (req[r].op = "createOrder" /\ order[r] # 0) =>
         /\ Len(orderItems[r]) = Len(cart[r].items)
         /\ catalogCalls[r] >= Len(cart[r].items)
         /\ storedOrder(order[r]).items = orderItems[r]
  /\ \A r \in Reqs :
       pc[r] \in {"co_findCart", "co_lookup", "co_save"} => order[r] = 0
  /\ \A d \in decLog : d.orderId # 0 /\ storedOrder(d.orderId) # NoOrder
  /\ \A r \in Reqs :
       (pc[r] = "co_notify" \/ (Done(r, "createOrder") /\ resp[r].status = 201)) =>
         /\ allDecremented(r)
         /\ findCart(carts, req[r].user) = NoCart
  /\ \A n \in notifications :
       /\ storedOrder(n.orderId) # NoOrder
       /\ findCart(carts, storedOrder(n.orderId).userId) = NoCart
       /\ \A l \in 1..Len(storedOrder(n.orderId).items) :
            \E d \in decLog : d.orderId = n.orderId /\ d.line = l
  /\ \A r \in Reqs :
       (Done(r, "createOrder") /\ resp[r].status = 201) =>
         \/ [type |-> "order_created", orderId |-> order[r]] \in notifications
         \/ fault[r] = "notify"

\* a checkout of a cart with two lines has answered 201 after its
\* notification was sent
C23_Witness ==
  \E r \in Reqs :
    /\ Done(r, "createOrder") /\ resp[r].status = 201
    /\ Len(orderItems[r]) = 2 /\ allDecremented(r)
    /\ [type |-> "order_created", orderId |-> order[r]] \in notifications

\* lines of the order of request r that were decremented for it
decrementedLines(r) == {d.line : d \in {e \in decLog : e.orderId = order[r]}}

\* quantity of product p the decrements for the order of request r took
decrementedQty(r, p) ==
  LET ds == {d \in decLog : d.orderId = order[r] /\ d.productId = p}
  IN SumSeq([l \in 1..Len(orderItems[r]) |->
               IF \E d \in ds : d.line = l THEN orderItems[r][l].quantity ELSE 0])

\* C24: a createOrder whose stock-decrement call failed (no other request in
\* flight) answers an error and leaves its order stored with status pending;
\* the lines before the failing one stay decremented, the lines after it are
\* not decremented, the stock is lower by exactly the decrements that were
\* applied, no notification is sent and the cart is as the request read it,
\* so that a retry checks the same cart out again.
C24_DecrementFailureLeavesOrder ==
  \A r \in Reqs :
    (Done(r, "createOrder") /\ order[r] # 0 /\ decrementFailed(r)) =>
      /\ resp[r].status = 500
      /\ storedOrder(order[r]).status = "pending"
      /\ storedOrder(order[r]).items = orderItems[r]
      /\ \A l \in 1..Len(orderItems[r]) :
           /\ l < idx[r] => l \in decrementedLines(r)
           /\ l > idx[r] => l \notin decrementedLines(r)
      /\ \A p \in Products : stock[p] = stock0[r][p] - decrementedQty(r, p)
      /\ findCart(carts, req[r].user) = cart[r]
      /\ Cardinality(notifications) = notifs0[r]

\* the first checkout of the cart failed at the decrement of its second line
\* and the retry has answered 201: two orders with the same lines are stored,
\* the first still pending, and the first line was decremented for both
C24_Witness ==
  \E r \in Reqs :
    /\ Done(r, "createOrder") /\ resp[r].status = 201
    /\ Len(orders) = 2 /\ order[r] = orders[2].id
    /\ orders[1].userId = orders[2].userId
    /\ orders[1].status = "pending"
    /\ sameLines(orders[1].items, orders[2].items)
    /\ {d.line : d \in {e \in decLog : e.orderId = orders[1].id}} = {1}
    /\ decrementedLines(r) = {1, 2}
    /\ stock["a"] = initStock["a"] - 2 /\ stock["b"] = initStock["b"] - 1

\* what the adjustment of request r adds to the stock of product p: its signed
\* quantity when it was answered 200 for p, nothing otherwise
stockDelta(r, p) ==
  IF Done(r, "adjustStock") /\ resp[r].status = 200
     /\ castObjectId(req[r].productId) = p
  THEN IF req[r].operation = "decrease" THEN 0 - req[r].quantity
       ELSE req[r].quantity
  ELSE 0

\* no request is in flight
answered == \A r \in Reqs : free(r)

\* C25: stock adjustments are never lost: once the adjustStock calls of an
\* interleaving are answered, the stock of every product is its initial stock
\* plus the signed quantities of the calls that succeeded (one request per
\* slot, so that every call is still on record).
C25_StockAdjustmentsNotLost ==
  (answered /\ started = Cardinality({r \in Reqs : pc[r] = "done"})) =>
    \A p \in Products :
      stock[p] = initStock[p]
                 + SumSeq([r \in 1..Cardinality(Reqs) |-> stockDelta(r, p)])

\* quantity the addItem of request r has added to the cart of u for product p
addedQty(r, u, p) ==
  IF Done(r, "addItem") /\ resp[r].status = 200 /\ req[r].user = u
     /\ castObjectId(req[r].productId) = p
  THEN req[r].quantity
  ELSE 0

\* the carts of user u in the collection cs
cartsOf(cs, u) == {i \in 1..Len(cs) : cs[i].userId = u}

\* C26: cart additions are never lost: once the addItem calls of an
\* interleaving are answered, a user with a successful addItem has exactly one
\* cart, and the quantity that cart holds of every product is what the user's
\* cart held at the start plus the quantities of the successful calls (one
\* request per slot, so that every call is still on record).
C26_CartAdditionsNotLost ==
  (answered /\ started = Cardinality({r \in Reqs : pc[r] = "done"})) =>
    \A u \in Users :
      (\E r \in Reqs : Done(r, "addItem") /\ resp[r].status = 200
                       /\ req[r].user = u) =>
        /\ Cardinality(cartsOf(carts, u)) = 1
        /\ \A p \in Products :
             orderedQty(findCart(carts, u).items, p) =
               orderedQty(findCart(initCarts, u).items, p)
               + SumSeq([r \in 1..Cardinality(Reqs) |-> addedQty(r, u, p)])

\* the lines of view are lines of the cart, in the order of the cart
linesOf(view, cartLines) ==
  \E f \in [1..Len(view) -> 1..Len(cartLines)] :
    /\ \A i, j \in 1..Len(view) : i < j => f[i] < f[j]
    /\ \A i \in 1..Len(view) :
         /\ view[i].productId = cartLines[f[i]].productId
         /\ view[i].quantity = cartLines[f[i]].quantity

\* C29: a getCart answers 200 with a total that is the sum of the subtotals
\* of the items it returns, every subtotal being the catalog price times the
\* quantity of the line; the items are the cart's lines when every lookup
\* succeeded and fewer of them, in cart order, when a lookup failed; and
\* (served alone) the stored cart is as the request read it.
C29_CartTotalIsSumOfSubtotals ==
  \A r \in Reqs :
    Done(r, "getCart") =>
      LET items == resp[r].body.items
      IN /\ resp[r].status = 200
         /\ resp[r].body.total =
              SumSeq([i \in 1..Len(items) |-> items[i].subtotal])
         /\ \A i \in 1..Len(items) :
              /\ items[i].price = price(items[i].productId)
              /\ items[i].subtotal = items[i].price * items[i].quantity
         /\ linesOf(items, cart[r].items)
         /\ fault[r] = "none" => Len(items) = Len(cart[r].items)
         /\ fault[r] = "getProduct" => Len(items) < Len(cart[r].items)
         /\ findCart(carts, req[r].user) = cart[r]

\* the lookup of the first of two lines failed: the answer holds the second
\* line only, two units of b, and its subtotal as total
C29_Witness ==
  \E r \in Reqs :
    /\ Done(r, "getCart") /\ fault[r] = "getProduct"
    /\ Len(cart[r].items) = 2 /\ Len(resp[r].body.items) = 1
    /\ resp[r].body.items[1].productId = "b"
    /\ resp[r].body.items[1].quantity = 2
    /\ resp[r].body.total = 2 * price("b")

\* what the provider has refunded for the payment with _id id
refundedTotal(id) ==
  SumSeq([i \in 1..Len(refunds) |->
            IF refunds[i].paymentId = id THEN refunds[i].amount ELSE 0])

\* C27: whatever refund requests were served, in sequence or interleaved, the
\* refunds of a payment add up to no more than its amount, and neither does
\* its stored refundAmount; a refund request whose amount exceeds what was
\* left of the payment is answered 400 "Refund amount exceeds available
\* amount".
C27_RefundsWithinAmount ==
  /\ \A i \in 1..Len(payments) :
       /\ payments[i].refundAmount <= payments[i].amount
       /\ refundedTotal(payments[i].id) <= payments[i].amount
  /\ \A r \in Reqs :
       (Done(r, "refund") /\ resp[r].status # 200
        /\ payment[r].status = "completed"
        /\ exceedsAvailable(req[r].amount, payment[r])) =>
         /\ resp[r].status = 400
         /\ resp[r].error = "Refund amount exceeds available amount"

\* request r has just run the payment.save() of its refund
refundSaved(r) == pc[r] = "rf_save" /\ pc'[r] # "rf_save"

\* C28: a payment is processing only while the request that created it is in
\* flight, and completed, failed or refunded afterwards; a refund is stored
\* only on a payment that is completed; and a payment is refunded exactly
\* when its refundAmount has reached its amount.
C28_PaymentLifecycle ==
  /\ [](\A i \in 1..Len(payments) :
          /\ payments[i].status \in {"processing", "completed", "failed", "refunded"}
          /\ payments[i].status = "processing" =>
               \E r \in Reqs : /\ pc[r] \in {"pp_provider", "pp_save"}
                               /\ payment[r].id = payments[i].id
          /\ payments[i].status = "refunded" <=>
               payments[i].refundAmount >= payments[i].amount)
  /\ [][\A r \in Reqs :
          refundSaved(r) =>
            findPayment(payments, payment[r].id).status = "completed"]_vars

\* request r is inside a handler of the order service
inHandler(r) == pc[r] \notin {"idle", "done", "verify", "gw_auth", "gw_proxy"}

\* the order service's share of C30: a handler runs only for a request whose
\* token the user service has answered with valid = true, as the user of the
\* token; a request sent to the order service without such an answer gets
\* 401; carts, orders and stock change only in a step of a verified request
OrderServiceOnlyVerified ==
  /\ [](\A r \in Reqs :
          /\ inHandler(r) => req[r].valid /\ req[r].user = userOf(req[r].token)
          /\ (pc[r] = "done" /\ req[r].path = "none" /\ ~req[r].valid) =>
               resp[r].status = 401)
  /\ [][<<stock, carts, orders>>' # <<stock, carts, orders>> =>
          \E r \in Reqs : req[r].valid /\ inHandler(r)]_vars

\* C30: no cart or order state is read or changed for an unauthenticated
\* caller: the handlers of the order service run only after the user service
\* has answered the token verification with valid = true (401 and no change
\* otherwise), and the gateway forwards a request on a protected path only
\* after such an answer, answering 401 without a token or with an invalid
\* one and 500 when the user service is out of reach.
C30_OnlyVerifiedCallers ==
  /\ OrderServiceOnlyVerified
  /\ [](\A r \in Reqs :
          /\ pc[r] = "gw_proxy" => req[r].valid
          /\ (pc[r] = "done" /\ req[r].path # "none" /\ ~req[r].valid
              /\ fault[r] # "proxy") =>
               resp[r].status = IF fault[r] = "verify" THEN 500 ELSE 401)

====
